---------------------------- MODULE Spec2Model ----------------------------
(***************************************************************************)
(* Model of .github/test-workflow.py: the issue-triage workflow test.      *)
(*                                                                         *)
(* TestWorkflow.test_workflow creates one issue per scenario, then         *)
(* validate_test_issues validates every created issue in turn:             *)
(* _validate_issue_with_retry polls the workflow runs with exponential     *)
(* backoff, _validate_issue_labels reads the labels once, and              *)
(* _validate_ai_assessment_comment polls the comments.  self.fail and      *)
(* self.assertEqual raise AssertionError, which nothing in the script      *)
(* catches: the exception leaves test_workflow.                            *)
(*                                                                         *)
(* Texts are sequences of tokens: a title is a sequence of characters, a   *)
(* label and a comment body are sequences of words and separators.  An     *)
(* absent value (Python's None) of a text is the empty sequence; an        *)
(* optional record is <<>> or <<r>>.                                       *)
(***************************************************************************)
EXTENDS Naturals, Sequences, FiniteSets

\* ------------------------------------------------------------------ bounds
\* Number of scenarios in the catalog under test.
NumFixtures == 2
\* Longest list of workflow runs the tracker returns in one fetch.
MaxRuns == 1
\* Longest list of comments the tracker returns in one fetch.
MaxComments == 1
\* Longest list of workflow runs the correlation is applied to on its own.
MaxUnitRuns == 2

\* ------------------------------------------------------- program constants
WORKFLOW_WAIT_SECONDS == 10
max_retries == 3
base_wait_seconds == 10
LABEL_SETTLE_SECONDS == 2
COMMENT_SETTLE_SECONDS == 2
max_comment_retries == 3
comment_base_wait_seconds == 3

\* ----------------------------------------------------------------- helpers
None == <<>>
Some(x) == <<x>>

Min(S) == CHOOSE m \in S : \A n \in S : m <= n

RECURSIVE Pow2(_)
Pow2(n) == IF n = 0 THEN 1 ELSE 2 * Pow2(n - 1)

\* All sequences over S of length at most n.
SeqsUpTo(S, n) == UNION {[1..k -> S] : k \in 0..n}

\* ----------------------------------------------------- character classes
\* Python's re classes over the characters that occur in the titles.
Digits == {"0", "1", "2"}
Spaces == {" "}
WordChars == Digits \cup {"a", "_"}

\* ------------------------------------------- _ISSUE_NUMBER_IN_TITLE_PATTERN
\* r"#\s*(\d+)\b": the index after the greedy \s* starting at i.
RECURSIVE SkipSpaces(_, _)
SkipSpaces(s, i) ==
    IF i <= Len(s) /\ s[i] \in Spaces THEN SkipSpaces(s, i + 1) ELSE i

\* The index after the greedy \d+ starting at i (i itself when no digit).
RECURSIVE SkipDigits(_, _)
SkipDigits(s, i) ==
    IF i <= Len(s) /\ s[i] \in Digits THEN SkipDigits(s, i + 1) ELSE i

\* The pattern matches with its "#" at index i.  Backtracking finds nothing
\* more: a shorter \s* is followed by a space, a shorter \d+ ends between
\* two digits, where \b does not hold.
TitlePatternMatchesAt(s, i) ==
    /\ s[i] = "#"
    /\ LET j == SkipSpaces(s, i + 1)
           k == SkipDigits(s, j)
       IN  /\ k > j
           /\ (k > Len(s) \/ s[k] \notin WordChars)

\* _ISSUE_NUMBER_IN_TITLE_PATTERN.search(title): group(1) of the leftmost
\* match, None when there is no match.
IssueNumberInTitle(title) ==
    LET hits == {i \in 1..Len(title) : TitlePatternMatchesAt(title, i)}
    IN  IF hits = {} THEN None
        ELSE LET i == Min(hits)
                 j == SkipSpaces(title, i + 1)
                 k == SkipDigits(title, j)
             IN  SubSeq(title, j, k - 1)

\* Mutant of FindRun: a run is taken when its number starts with the
\* issue number.
RECURSIVE FindRunPrefix(_, _)
FindRunPrefix(runs, issue_number) ==
    IF runs = <<>> THEN None
    ELSE LET workflow_run == Head(runs)
             issue_num == IssueNumberInTitle(workflow_run.displayTitle)
         IN  IF /\ Len(issue_num) >= Len(issue_number)
                /\ SubSeq(issue_num, 1, Len(issue_number)) = issue_number
             THEN Some(workflow_run)
             ELSE FindRunPrefix(Tail(runs), issue_number)

\* ------------------------------------------------- workflow run correlation
\* Lines 354-363: the first run of the list whose title carries exactly
\* this issue number; None when no run does.
RECURSIVE FindRun(_, _)
FindRun(runs, issue_number) ==
    IF runs = <<>> THEN None
    ELSE LET workflow_run == Head(runs)
             issue_num == IssueNumberInTitle(workflow_run.displayTitle)
         IN  IF issue_num # None /\ issue_num = issue_number
             THEN Some(workflow_run)
             ELSE FindRun(Tail(runs), issue_number)

\* Mutant of SelectRun: the run of the previous attempt is kept when the
\* new list has no run of the issue.
SelectRunKeepsPrevious(previous, runs, issue_number) ==
    IF FindRun(runs, issue_number) # None
    THEN FindRun(runs, issue_number) ELSE previous

\* Lines 350-363: what run holds after the search of one attempt, when it
\* held previous before: line 354 sets it to None, then the search assigns
\* the run of the issue found in the list just fetched.
SelectRun(previous, runs, issue_number) == FindRun(runs, issue_number)

\* ------------------------------------------------------------ label texts
\* A label is a sequence of tokens; "-" occurs only as a token of its own
\* and inside the token "bug-triage:", which always follows "ai:".
KindBug == <<"kind/bug">>
AiLabel(severity, component) ==
    <<"ai:", "bug-triage:", severity, "-", component>>

\* label.startswith("ai:")
StartsWithAi(label) == Len(label) >= 1 /\ label[1] = "ai:"

\* label.startswith("ai:bug-triage:")
StartsWithAiBugTriage(label) ==
    Len(label) >= 2 /\ label[1] = "ai:" /\ label[2] = "bug-triage:"

\* label.replace("ai:bug-triage:", ""): every occurrence is removed.
RECURSIVE RemoveAiBugTriage(_)
RemoveAiBugTriage(label) ==
    IF label = <<>> THEN <<>>
    ELSE IF StartsWithAiBugTriage(label)
         THEN RemoveAiBugTriage(SubSeq(label, 3, Len(label)))
         ELSE <<Head(label)>> \o RemoveAiBugTriage(Tail(label))

\* text.split("-", 1): one part when there is no "-", else the text before
\* the first "-" and the text after it.
SplitDash(text) ==
    LET dashes == {i \in 1..Len(text) : text[i] = "-"}
    IN  IF dashes = {} THEN <<text>>
        ELSE LET i == Min(dashes)
             IN  <<SubSeq(text, 1, i - 1), SubSeq(text, i + 1, Len(text))>>

\* Mutant of ComponentFound: the severity part is compared.
ComponentFoundSeverityPart(expected_component, actual_labels) ==
    \E actual_label \in actual_labels :
        /\ StartsWithAiBugTriage(actual_label)
        /\ LET actual_parts == SplitDash(RemoveAiBugTriage(actual_label))
           IN  Len(actual_parts) >= 2 /\ actual_parts[1] = expected_component

\* Lines 515-522: some actual label has the ai:bug-triage: prefix and the
\* expected component after its first "-".
ComponentFound(expected_component, actual_labels) ==
    \E actual_label \in actual_labels :
        /\ StartsWithAiBugTriage(actual_label)
        /\ LET actual_parts == SplitDash(RemoveAiBugTriage(actual_label))
           IN  Len(actual_parts) >= 2 /\ actual_parts[2] = expected_component

\* Mutant of AiLabelFailures: a label without "-" after the prefix is not
\* checked.
AiLabelFailuresNoFallback(expected_ai_label, actual_labels) ==
    IF ~StartsWithAiBugTriage(expected_ai_label)
    THEN IF expected_ai_label \notin actual_labels
         THEN {[kind |-> "ai label not found", what |-> expected_ai_label,
                actual |-> actual_labels]}
         ELSE {}
    ELSE LET parts == SplitDash(RemoveAiBugTriage(expected_ai_label))
         IN  IF Len(parts) < 2
             THEN {}
             ELSE IF ~ComponentFound(parts[2], actual_labels)
                  THEN {[kind |-> "component not found", what |-> parts[2],
                         actual |-> actual_labels]}
                  ELSE {}

\* Lines 481-534, the body of the loop for one expected ai: label: the
\* failures self.fail raises for it (none when the label passes).
AiLabelFailures(expected_ai_label, actual_labels) ==
    IF ~StartsWithAiBugTriage(expected_ai_label)
    THEN IF expected_ai_label \notin actual_labels
         THEN {[kind |-> "ai label not found", what |-> expected_ai_label,
                actual |-> actual_labels]}
         ELSE {}
    ELSE LET parts == SplitDash(RemoveAiBugTriage(expected_ai_label))
         IN  IF Len(parts) < 2
             THEN IF expected_ai_label \notin actual_labels
                  THEN {[kind |-> "ai label not found",
                         what |-> expected_ai_label,
                         actual |-> actual_labels]}
                  ELSE {}
             ELSE IF ~ComponentFound(parts[2], actual_labels)
                  THEN {[kind |-> "component not found", what |-> parts[2],
                         actual |-> actual_labels]}
                  ELSE {}

\* Mutant of LabelFailures: only kind/bug is checked.
LabelFailuresKindBugOnly(expected_labels, actual_labels) ==
    IF KindBug \in expected_labels /\ KindBug \notin actual_labels
    THEN {[kind |-> "kind/bug missing", what |-> KindBug,
           actual |-> actual_labels]}
    ELSE {}

\* Lines 461-534 of _validate_issue_labels: the failures the call can raise
\* for these labels; it returns normally iff the set is empty.  The ai:
\* labels are iterated in the order of a Python set, so any failing one may
\* be the first to raise.
LabelFailures(expected_labels, actual_labels) ==
    IF KindBug \in expected_labels /\ KindBug \notin actual_labels
    THEN {[kind |-> "kind/bug missing", what |-> KindBug,
           actual |-> actual_labels]}
    ELSE UNION {AiLabelFailures(l, actual_labels) :
                    l \in {e \in expected_labels : StartsWithAi(e)}}

\* ---------------------------------------------------------- comment texts
\* A comment body is a sequence of tokens: words, " " and "\n".
Whitespace == {" ", "\n"}

\* str.lower() of a token (re.IGNORECASE compares case-folded text).
LowerTok(t) ==
    CASE t = "AI" -> "ai"
      [] t = "Assessment:" -> "assessment:"
      [] t = "critical-CoreAPI" -> "critical-coreapi"
      [] t = "High-Installation" -> "high-installation"
      [] OTHER -> t

RECURSIVE Join(_)
Join(toks) == IF toks = <<>> THEN "" ELSE Head(toks) \o Join(Tail(toks))

RECURSIVE LowerJoin(_)
LowerJoin(toks) ==
    IF toks = <<>> THEN "" ELSE LowerTok(Head(toks)) \o LowerJoin(Tail(toks))

\* "AI Assessment:" in body (case-sensitive).
HasLiteralMarker(body) ==
    \E i \in 1..Len(body) :
        /\ i + 2 <= Len(body)
        /\ body[i] = "AI" /\ body[i + 1] = " " /\ body[i + 2] = "Assessment:"

RECURSIVE SkipWhitespace(_, _)
SkipWhitespace(s, i) ==
    IF i <= Len(s) /\ s[i] \in Whitespace THEN SkipWhitespace(s, i + 1) ELSE i

RECURSIVE SkipNonWhitespace(_, _)
SkipNonWhitespace(s, i) ==
    IF i <= Len(s) /\ s[i] \notin Whitespace
    THEN SkipNonWhitespace(s, i + 1) ELSE i

\* r"AI Assessment:\s*([^\n\s]+)" with re.IGNORECASE matches with the
\* marker at index i: the marker in any case, then a non-empty token.
AssessmentPatternMatchesAt(body, i) ==
    /\ i + 2 <= Len(body)
    /\ LowerTok(body[i]) = "ai" /\ body[i + 1] = " "
    /\ LowerTok(body[i + 2]) = "assessment:"
    /\ LET j == SkipWhitespace(body, i + 3)
       IN  SkipNonWhitespace(body, j) > j

\* re.search(...): the tokens of group(1) of the leftmost match, None when
\* the pattern matches nowhere.
AssessmentToken(body) ==
    LET hits == {i \in 1..Len(body) : AssessmentPatternMatchesAt(body, i)}
    IN  IF hits = {} THEN None
        ELSE LET i == Min(hits)
                 j == SkipWhitespace(body, i + 3)
             IN  SubSeq(body, j, SkipNonWhitespace(body, j) - 1)

Severities == {"critical", "high", "medium", "low"}
Components ==
    {"coreapi", "networking", "installation", "storage", "webconsole",
     "documentation"}

\* Line 575: the closed-vocabulary pattern, matched with re.IGNORECASE.
MatchesVocabulary(token) ==
    LowerJoin(token) \in {s \o "-" \o c : s \in Severities, c \in Components}

\* Lines 565-581: one scan of the fetched comments.  found is
\* assessment_found (the scan returned success); token is found_assessment
\* when the scan ends: the valid token, else the last token extracted, else
\* None.
RECURSIVE ScanComments(_, _)
ScanComments(comments, found_assessment) ==
    IF comments = <<>>
    THEN [found |-> FALSE, token |-> found_assessment]
    ELSE LET body == Head(comments)
             tok == IF HasLiteralMarker(body)
                    THEN AssessmentToken(body) ELSE None
         IN  IF tok = None
             THEN ScanComments(Tail(comments), found_assessment)
             ELSE IF MatchesVocabulary(tok)
                  THEN [found |-> TRUE, token |-> Some(Join(tok))]
                  ELSE ScanComments(Tail(comments), Some(Join(tok)))

\* Lines 601-607: actual_assessments, the token of every comment that has
\* the marker and a match, in comment order.
RECURSIVE ActualAssessments(_)
ActualAssessments(comments) ==
    IF comments = <<>> THEN <<>>
    ELSE LET body == Head(comments)
             tok == IF HasLiteralMarker(body)
                    THEN AssessmentToken(body) ELSE None
         IN  (IF tok = None THEN <<>> ELSE <<Join(tok)>>)
                 \o ActualAssessments(Tail(comments))

\* Mutant of AssessmentFailure: a comment with the marker counts as an
\* assessment, with or without a token after it.
AssessmentFailureMarkerOnly(comments) ==
    IF comments = <<>>
    THEN [kind |-> "no comments found", found |-> <<>>]
    ELSE IF \E i \in 1..Len(comments) : HasLiteralMarker(comments[i])
         THEN [kind |-> "format is invalid",
               found |-> ActualAssessments(comments)]
         ELSE [kind |-> "assessment comment not found", found |-> <<>>]

\* Lines 594-618: the failure raised when the retries are exhausted.
AssessmentFailure(comments) ==
    IF comments = <<>>
    THEN [kind |-> "no comments found", found |-> <<>>]
    ELSE IF ActualAssessments(comments) # <<>>
         THEN [kind |-> "format is invalid",
               found |-> ActualAssessments(comments)]
         ELSE [kind |-> "assessment comment not found", found |-> <<>>]

\* ------------------------------------------------- locators and identifiers
\* An output text and a URL are sequences of tokens; an issue number is a
\* sequence of digits.
\* _GITHUB_URL_PATTERN.search(output): "https://github.com/" and the
\* non-empty text up to the next whitespace; None when there is none.
extract_url_from_output(output) ==
    LET hits == {i \in 1..Len(output) :
                    /\ output[i] = "https://github.com/"
                    /\ SkipNonWhitespace(output, i + 1) > i + 1}
    IN  IF hits = {} THEN None
        ELSE LET i == Min(hits)
             IN  SubSeq(output, i, SkipNonWhitespace(output, i + 1) - 1)

\* _ISSUE_NUMBER_PATTERN.search(url): the digits after the leftmost
\* "/issues/" that is followed by a digit; None when there is none.
extract_issue_number_from_url(url) ==
    LET hits == {i \in 1..Len(url) :
                    url[i] = "/issues/" /\ SkipDigits(url, i + 1) > i + 1}
    IN  IF hits = {} THEN None
        ELSE LET i == Min(hits)
             IN  SubSeq(url, i + 1, SkipDigits(url, i + 1) - 1)

\* ------------------------------------------------------------ environment
\* The issue numbers the tracker hands out.
IssueIds == {<<"1">>, <<"1", "1">>}

IssueUrl(id) == <<"https://github.com/", "o/r", "/issues/">> \o id

\* What "gh issue create" can answer when it creates no issue.
CreateFailures ==
    { [exit_code |-> 1, stdout |-> <<>>, stderr |-> <<"error">>],
      [exit_code |-> 0, stdout |-> <<"created">>, stderr |-> <<>>],
      [exit_code |-> 0,
       stdout |-> <<"https://github.com/", "o/r", "/pull/", "2">>,
       stderr |-> <<>>] }

\* What it can answer for an issue the tracker numbers id.
CreateAnswers(id) ==
    { [exit_code |-> 1, stdout |-> IssueUrl(id), stderr |-> <<"error">>],
      [exit_code |-> 0, stdout |-> IssueUrl(id) \o <<"\n">>, stderr |-> <<>>],
      [exit_code |-> 0, stdout |-> <<>>,
       stderr |-> <<"Creating", " ">> \o IssueUrl(id)] }

\* The answers possible when the numbers in used are taken.
CreateResults(used) ==
    CreateFailures \cup UNION {CreateAnswers(id) : id \in IssueIds \ used}

Run(title, status, conclusion, id, created, updated) ==
    [displayTitle |-> title, status |-> status, conclusion |-> conclusion,
     databaseId |-> id, createdAt |-> created, updatedAt |-> updated]

TitleFor1 == <<"a", " ", "#", "1">>
TitleFor11 == <<"a", " ", "#", "1", "1">>

\* Run snapshots of the tracker; databaseId 0 and a timestamp "" stand for
\* a missing field.
RunPool ==
    { Run(TitleFor1, "completed", "success", 7, "t1", "t2"),
      Run(TitleFor1, "completed", "failure", 7, "t1", "t2"),
      Run(TitleFor1, "in_progress", "", 7, "t1", "t2"),
      Run(TitleFor1, "queued", "", 7, "t1", "t2"),
      Run(TitleFor1, "in_progress", "", 0, "t1", "t2"),
      Run(TitleFor1, "completed", "success", 7, "", "t2"),
      Run(TitleFor1, "completed", "success", 7, "t1", ""),
      Run(TitleFor11, "completed", "success", 8, "t1", "t2"),
      Run(TitleFor11, "in_progress", "", 8, "t1", "t2") }

RunLists == SeqsUpTo(RunPool, MaxRuns)

\* Titles for the correlation on its own.
TitlePool ==
    { <<>>, <<"a">>, <<"#">>, <<"#", "a">>,
      <<"#", "1">>, <<"#", "1", "1">>, <<"#", " ", "1">>,
      <<"#", "1", "a">>, <<"#", "1", "_">>, <<"#", "0", "1">>,
      <<"#", "1", " ", "#", "1", "1">>, <<"#", "1", "1", " ", "#", "1">>,
      <<"#", "1", "a", " ", "#", "1">>, <<"a", "#", "2", " ", "1">>,
      <<"1">>, <<"1", "1">> }

LabelPool ==
    { KindBug,
      AiLabel("critical", "coreapi"),
      AiLabel("high", "coreapi"),
      AiLabel("high", "networking") }

LabelSets == SUBSET LabelPool

BodyValid ==
    <<"AI", " ", "Assessment:", " ", "critical-CoreAPI", "\n",
      "more", " ", "text">>
BodyInvalid == <<"AI", " ", "Assessment:", " ", "urgent-thing">>
BodyPlain == <<"text">>
BodyMarkerOnly == <<"AI", " ", "Assessment:", "\n">>
BodyShadowed ==
    <<"ai", " ", "assessment:", " ", "high-coreapi", "\n",
      "AI", " ", "Assessment:", " ", "urgent-thing">>

BodyMasked ==
    <<"ai", " ", "assessment:", " ", "urgent-thing", "\n",
      "AI", " ", "Assessment:", " ", "critical-CoreAPI">>

BodyPool ==
    {BodyValid, BodyInvalid, BodyPlain, BodyMarkerOnly, BodyShadowed,
     BodyMasked}

CommentLists == SeqsUpTo(BodyPool, MaxComments)

\* ---------------------------------------------------------------- fixtures
Fixture(labels, is_positive, expected_assessment, expected_labels, name) ==
    [labels |-> labels, is_positive |-> is_positive,
     expected_assessment |-> expected_assessment,
     expected_labels |-> expected_labels, scenario |-> name]

\* Scenario 1 of get_test_scenarios, and scenarios without the optional
\* keys ("" is an absent expected_assessment, None an absent
\* expected_labels key).
FixturePool ==
    { Fixture({KindBug}, TRUE, "Ready for Review",
              Some({KindBug, AiLabel("critical", "coreapi")}), "both"),
      Fixture({KindBug}, FALSE, "", None, "labels only"),
      Fixture({}, TRUE, "", None, "assessment only"),
      Fixture({}, FALSE, "", None, "neither") }

\* Mutant of MetadataOf: a fixture without expected_labels expects no label.
MetadataOfNoDefault(test) ==
    [is_positive |-> test.is_positive,
     expected_assessment |-> test.expected_assessment,
     expected_labels |-> IF test.expected_labels = None
                         THEN {} ELSE test.expected_labels[1],
     scenario |-> test.scenario]

\* Lines 302-307: the metadata stored for a created issue.
MetadataOf(test) ==
    [is_positive |-> test.is_positive,
     expected_assessment |-> test.expected_assessment,
     expected_labels |-> IF test.expected_labels = None
                         THEN test.labels ELSE test.expected_labels[1],
     scenario |-> test.scenario]

\* scenario_metadata.get(issue_number, {}) read through metadata.get(...).
EmptyMetadata ==
    [is_positive |-> FALSE, expected_assessment |-> "",
     expected_labels |-> {}, scenario |-> "Unknown"]

\* ------------------------------------------------------------------- state
VARIABLES
    pc,                 \* where test_workflow stands
    fi,                 \* index of the next fixture to create
    created_issues,     \* URLs of the created issues, in creation order
    scenario_metadata,  \* issue number -> metadata
    createLog,          \* per fixture: the create calls and settle waits made
    answer,             \* what the last "gh issue create" answered
    verified,           \* what verify_issue returned in the last creation
    usedIds,            \* issue numbers the tracker has handed out
    issue_numbers,      \* validate_test_issues: the numbers to validate
    vi,                 \* index in issue_numbers of the issue being validated
    started,            \* indices of the issues whose validation has begun
    passed,             \* indices of the issues whose validation returned
    attempt,            \* loop variable of the active retry loop
    run,                \* _validate_issue_with_retry: the run selected last
    validated,          \* line 440 was reached for the current issue
    probes,             \* what each iteration of the active loop observed
    waits,              \* the backoff sleeps of the active loop, in order
    settles,            \* the flat sleeps made for the current issue
    labelFetches,       \* get_issue_labels calls for the current issue
    labelsFailed,       \* _validate_issue_labels raised for the current issue
    actual_labels,      \* _validate_issue_labels: the labels it read
    commentFetches,     \* get_issue_comments calls for the current issue
    comments,           \* _validate_ai_assessment_comment: the last fetch
    failure,            \* the AssertionError that left test_workflow, if any
    fn, args, res       \* a helper applied on its own: name, input, result

progVars ==
    <<pc, fi, created_issues, scenario_metadata, createLog, answer,
      verified, usedIds, issue_numbers, vi, started, passed, attempt, run, validated, probes,
      waits, settles, labelFetches, labelsFailed, actual_labels,
      commentFetches, comments, failure>>
unitVars == <<fn, args, res>>
vars == <<progVars, unitVars>>

createVars ==
    <<fi, created_issues, scenario_metadata, createLog, answer, verified,
      usedIds>>
issueVars ==
    <<attempt, run, validated, probes, waits, settles, labelFetches,
      labelsFailed, actual_labels, commentFetches, comments>>

\* The state before test_workflow creates the first issue.
ProgInit ==
    /\ pc = "create"
    /\ fi = 1
    /\ created_issues = <<>>
    /\ scenario_metadata = <<>>
    /\ createLog = <<>>
    /\ answer = None
    /\ verified = None
    /\ usedIds = {}
    /\ issue_numbers = <<>>
    /\ vi = 0
    /\ started = {}
    /\ passed = {}
    /\ attempt = 0
    /\ run = None
    /\ validated = FALSE
    /\ probes = <<>>
    /\ waits = <<>>
    /\ settles = <<>>
    /\ labelFetches = 0
    /\ labelsFailed = FALSE
    /\ actual_labels = None
    /\ commentFetches = 0
    /\ comments = <<>>
    /\ failure = None

Init ==
    /\ ProgInit
    /\ fn = "none" /\ args = <<>> /\ res = [done |-> FALSE]

\* ----------------------------------------------------------------- creation
\* Mutant of CreatedUrl: the exit code is not looked at.
CreatedUrlIgnoresExit(r) ==
    IF extract_url_from_output(r.stdout) # None
    THEN extract_url_from_output(r.stdout)
    ELSE extract_url_from_output(r.stderr)

\* create_test_issue, lines 124-151: the URL returned (None for a failed
\* creation) for one answer of "gh issue create".
CreatedUrl(r) ==
    IF r.exit_code # 0 THEN None
    ELSE IF extract_url_from_output(r.stdout) # None
         THEN extract_url_from_output(r.stdout)
         ELSE extract_url_from_output(r.stderr)

\* Mutant of SettleWaits: the sleep is made before the early returns.
SettleWaitsAlways(issue_url) == <<WORKFLOW_WAIT_SECONDS>>

\* Lines 125-136 and 148-149: the sleeps of one call of create_test_issue:
\* none on the early returns, WORKFLOW_WAIT_SECONDS before the URL is
\* returned.
SettleWaits(issue_url) ==
    IF issue_url # None THEN <<WORKFLOW_WAIT_SECONDS>> ELSE <<>>

\* Lines 124-151: the calls one call of create_test_issue makes, in order.
CreateSteps(issue_url, issue_number) ==
    <<"create">>
        \o (IF issue_number # None THEN <<"verify">> ELSE <<>>)
        \o (IF issue_url # None THEN <<"sleep">> ELSE <<>>)

\* Lines 289-307: one iteration of the loop over the scenarios, with the
\* call of create_test_issue; test is the scenario the loop has come to.
\* verify_issue only logs: ok is what it returns.
CreateTestIssue ==
    /\ pc = "create"
    /\ fi <= NumFixtures
    /\ \E test \in FixturePool :
       \E r \in CreateResults(usedIds) :
       \E ok \in BOOLEAN :
          LET issue_url == CreatedUrl(r)
              issue_number == IF issue_url = None THEN None
                              ELSE extract_issue_number_from_url(issue_url)
          IN  /\ createLog' = Append(createLog,
                    [calls |-> 1,
                     verifies |-> IF issue_number # None THEN 1 ELSE 0,
                     sleeps |-> SettleWaits(issue_url),
                     steps |-> CreateSteps(issue_url, issue_number),
                     url |-> issue_url])
              /\ answer' = Some(r)
              /\ verified' = IF issue_number # None THEN Some(ok) ELSE None
              /\ created_issues' = IF issue_url # None
                                   THEN Append(created_issues, issue_url)
                                   ELSE created_issues
              /\ scenario_metadata' =
                    IF issue_number # None
                    THEN [n \in DOMAIN scenario_metadata \cup {issue_number} |->
                            IF n = issue_number THEN MetadataOf(test)
                            ELSE scenario_metadata[n]]
                    ELSE scenario_metadata
              /\ usedIds' = IF issue_number # None
                            THEN usedIds \cup {issue_number} ELSE usedIds
    /\ fi' = fi + 1
    /\ UNCHANGED <<pc, issue_numbers, vi, started, passed, failure>>
    /\ UNCHANGED issueVars
    /\ UNCHANGED unitVars

\* Mutant of ExtractIssueNumbers: a locator with no issue number yields its
\* last token.
RECURSIVE ExtractIssueNumbersKeepsAll(_)
ExtractIssueNumbersKeepsAll(urls) ==
    IF urls = <<>> THEN <<>>
    ELSE LET issue_number == extract_issue_number_from_url(Head(urls))
         IN  (IF issue_number # None THEN <<issue_number>>
              ELSE <<<<Head(urls)[Len(Head(urls))]>>>>)
                \o ExtractIssueNumbersKeepsAll(Tail(urls))

\* Lines 328-333: the issue numbers of the locators that have one, in the
\* order of created_issues.
RECURSIVE ExtractIssueNumbers(_)
ExtractIssueNumbers(urls) ==
    IF urls = <<>> THEN <<>>
    ELSE LET issue_number == extract_issue_number_from_url(Head(urls))
         IN  (IF issue_number # None THEN <<issue_number>> ELSE <<>>)
                \o ExtractIssueNumbers(Tail(urls))

\* Lines 309-333: after the last scenario, validate_test_issues is entered
\* and extracts the issue numbers.  The locals of create_test_issue are
\* gone.
EnterValidation ==
    /\ pc = "create"
    /\ fi > NumFixtures
    /\ issue_numbers' = ExtractIssueNumbers(created_issues)
    /\ pc' = "next"
    /\ answer' = None
    /\ verified' = None
    /\ UNCHANGED <<vi, started, passed, failure>>
    /\ UNCHANGED <<fi, created_issues, scenario_metadata, createLog, usedIds>>
    /\ UNCHANGED issueVars
    /\ UNCHANGED unitVars

\* ------------------------------------------------------------- validation
Metadata ==
    IF vi \in 1..Len(issue_numbers)
       /\ issue_numbers[vi] \in DOMAIN scenario_metadata
    THEN scenario_metadata[issue_numbers[vi]] ELSE EmptyMetadata

\* Line 448: the scenario should have an assessment comment.
WantsAssessment(metadata) ==
    metadata.is_positive \/ metadata.expected_assessment # ""

\* Mutant of BackoffWait: the sleep grows linearly.
BackoffWaitLinear(base, n) == base * (n + 1)

\* Lines 367, 401 and 585: the sleep before the next attempt.
BackoffWait(base, n) == base * Pow2(n)

Fail(stage, reason) ==
    /\ failure' = Some([issue |-> issue_numbers[vi], stage |-> stage,
                        reason |-> reason])
    /\ pc' = "failed"

\* Lines 336-338: the loop over issue_numbers.  The next issue's validation
\* is called, or the loop ends and test_workflow returns.
NextIssue ==
    /\ pc = "next"
    /\ IF vi < Len(issue_numbers)
       THEN /\ vi' = vi + 1
            /\ started' = started \cup {vi + 1}
            /\ pc' = "runs"
       ELSE /\ pc' = "done"
            /\ UNCHANGED <<vi, started>>
    /\ attempt' = 0
    /\ run' = None
    /\ validated' = FALSE
    /\ probes' = <<>>
    /\ waits' = <<>>
    /\ settles' = <<>>
    /\ labelFetches' = 0
    /\ labelsFailed' = FALSE
    /\ actual_labels' = None
    /\ commentFetches' = 0
    /\ comments' = <<>>
    /\ UNCHANGED <<issue_numbers, passed, failure>>
    /\ UNCHANGED createVars
    /\ UNCHANGED unitVars

\* Mutant of NoRunStep: the last retry is not made.
NoRunStepOffByOne(n) ==
    IF n + 1 < max_retries
    THEN [act |-> "retry", reason |-> ""]
    ELSE [act |-> "fail", reason |-> "No workflow run found"]

\* Mutant of NoRunStep: one retry more than max_retries.
NoRunStepOneMore(n) ==
    IF n < max_retries + 1
    THEN [act |-> "retry", reason |-> ""]
    ELSE [act |-> "fail", reason |-> "No workflow run found"]

\* Lines 365-379: no run was selected.
NoRunStep(n) ==
    IF n < max_retries
    THEN [act |-> "retry", reason |-> ""]
    ELSE [act |-> "fail", reason |-> "No workflow run found"]

\* Mutant of MissingField: a run in progress is not checked.
MissingFieldUnlessInProgress(r) ==
    IF r.status = "in_progress" THEN ""
    ELSE IF r.databaseId = 0 THEN "No run_id found"
    ELSE IF r.createdAt = "" THEN "No createdAt timestamp"
    ELSE IF r.updatedAt = "" THEN "No updatedAt timestamp"
    ELSE ""

\* Lines 388-397: the failure for a missing required field, "" when the
\* snapshot has them all.
MissingField(r) ==
    IF r.databaseId = 0 THEN "No run_id found"
    ELSE IF r.createdAt = "" THEN "No createdAt timestamp"
    ELSE IF r.updatedAt = "" THEN "No updatedAt timestamp"
    ELSE ""

\* Mutant of Verdict: lines 424-428 are missing, a run still in progress
\* at the last attempt fails the status assertion.
VerdictNoExhaustionReason(r, n) ==
    IF r.status = "in_progress" /\ n < max_retries
    THEN [act |-> "retry", reason |-> ""]
    ELSE IF r.status # "completed"
    THEN [act |-> "fail", reason |-> "did not complete"]
    ELSE IF r.conclusion # "success"
    THEN [act |-> "fail", reason |-> "did not complete successfully"]
    ELSE [act |-> "validated", reason |-> ""]

\* Mutant of Verdict: the conclusion is not asserted.
VerdictIgnoresConclusion(r, n) ==
    IF r.status = "in_progress" /\ n < max_retries
    THEN [act |-> "retry", reason |-> ""]
    ELSE IF r.status = "in_progress"
    THEN [act |-> "fail", reason |-> "did not complete after retries"]
    ELSE IF r.status # "completed"
    THEN [act |-> "fail", reason |-> "did not complete"]
    ELSE [act |-> "validated", reason |-> ""]

\* Mutant of Verdict: every run that is not completed is retried.
VerdictRetriesUnfinished(r, n) ==
    IF r.status # "completed" /\ n < max_retries
    THEN [act |-> "retry", reason |-> ""]
    ELSE IF r.status = "in_progress"
    THEN [act |-> "fail", reason |-> "did not complete after retries"]
    ELSE IF r.status # "completed"
    THEN [act |-> "fail", reason |-> "did not complete"]
    ELSE IF r.conclusion # "success"
    THEN [act |-> "fail", reason |-> "did not complete successfully"]
    ELSE [act |-> "validated", reason |-> ""]

\* Lines 399-440: the snapshot has its fields: retry while in progress,
\* else the verdict.
Verdict(r, n) ==
    IF r.status = "in_progress" /\ n < max_retries
    THEN [act |-> "retry", reason |-> ""]
    ELSE IF r.status = "in_progress"
    THEN [act |-> "fail", reason |-> "did not complete after retries"]
    ELSE IF r.status # "completed"
    THEN [act |-> "fail", reason |-> "did not complete"]
    ELSE IF r.conclusion # "success"
    THEN [act |-> "fail", reason |-> "did not complete successfully"]
    ELSE [act |-> "validated", reason |-> ""]

\* Lines 365-440, after the run is selected: what one iteration of the loop
\* of _validate_issue_with_retry decides.
CompletionStep(found, n) ==
    IF found = None THEN NoRunStep(n)
    ELSE IF MissingField(found[1]) # ""
         THEN [act |-> "fail", reason |-> MissingField(found[1])]
         ELSE Verdict(found[1], n)

\* Mutant of AfterValidated: the assessment is validated before the labels.
AfterValidatedAssessmentFirst(metadata) ==
    IF WantsAssessment(metadata) THEN "settle"
    ELSE IF metadata.expected_labels # {} THEN "labels"
    ELSE "return"

\* Lines 442-452: where _validate_issue_with_retry goes once the workflow
\* is validated.
AfterValidated(metadata) ==
    IF metadata.expected_labels # {} THEN "labels"
    ELSE IF WantsAssessment(metadata) THEN "settle"
    ELSE "return"

\* Lines 447-452, after the labels: the assessment, or the return.
AfterLabels(metadata) ==
    IF WantsAssessment(metadata) THEN "settle" ELSE "return"

\* The validation of the current issue returns to the loop of line 336.
Return(target) ==
    /\ pc' = IF target = "return" THEN "next" ELSE target
    /\ passed' = IF target = "return" THEN passed \cup {vi} ELSE passed

\* Lines 348-452: one iteration of the loop of _validate_issue_with_retry:
\* fetch the runs, select the run of this issue, decide.
ProbeRuns ==
    /\ pc = "runs"
    /\ \E runs \in RunLists :
          LET found == SelectRun(run, runs, issue_numbers[vi])
              step == CompletionStep(found, attempt)
          IN  /\ run' = found
              /\ probes' = Append(probes, found)
              /\ CASE step.act = "retry" ->
                        /\ waits' = Append(waits,
                                BackoffWait(base_wait_seconds, attempt))
                        /\ attempt' = attempt + 1
                        /\ UNCHANGED <<pc, failure, validated, passed>>
                   [] step.act = "fail" ->
                        /\ Fail("completion", step.reason)
                        /\ UNCHANGED <<waits, attempt, validated, passed>>
                   [] step.act = "validated" ->
                        /\ validated' = TRUE
                        /\ Return(AfterValidated(Metadata))
                        /\ UNCHANGED <<waits, attempt, failure>>
    /\ UNCHANGED <<issue_numbers, vi, started, settles, labelFetches,
                   labelsFailed, actual_labels, commentFetches, comments>>
    /\ UNCHANGED createVars
    /\ UNCHANGED unitVars

\* Lines 454-534: _validate_issue_labels: sleep, read the labels once
\* (get_issue_labels gives [] when the issue cannot be read), check them.
ValidateIssueLabels ==
    /\ pc = "labels"
    /\ settles' = Append(settles, LABEL_SETTLE_SECONDS)
    /\ labelFetches' = labelFetches + 1
    /\ \E labels \in LabelSets :
          LET failures == LabelFailures(Metadata.expected_labels, labels)
          IN  /\ actual_labels' = Some(labels)
              /\ IF failures = {}
                 THEN /\ Return(AfterLabels(Metadata))
                      /\ UNCHANGED <<failure, labelsFailed>>
                 ELSE /\ \E f \in failures : Fail("labels", f)
                      /\ labelsFailed' = TRUE
                      /\ UNCHANGED passed
    /\ UNCHANGED <<issue_numbers, vi, started, attempt, run,
                   validated, probes, waits, commentFetches, comments>>
    /\ UNCHANGED createVars
    /\ UNCHANGED unitVars

\* Lines 540-545: _validate_ai_assessment_comment is entered: the flat
\* sleep, then its own retry loop starts.  The locals of
\* _validate_issue_labels are gone.
AssessmentSettle ==
    /\ pc = "settle"
    /\ settles' = Append(settles, COMMENT_SETTLE_SECONDS)
    /\ attempt' = 0
    /\ probes' = <<>>
    /\ waits' = <<>>
    /\ actual_labels' = None
    /\ pc' = "comments"
    /\ UNCHANGED <<issue_numbers, vi, started, passed, run, validated,
                   labelFetches, labelsFailed, commentFetches, comments,
                   failure>>
    /\ UNCHANGED createVars
    /\ UNCHANGED unitVars

\* Mutant of AssessmentStep: the last retry is not made.
AssessmentStepOneRetryLess(scan, n) ==
    IF scan.found THEN "success"
    ELSE IF n + 1 < max_comment_retries THEN "retry"
    ELSE "fail"

\* Lines 583-619, after the scan: what one iteration of the loop of
\* _validate_ai_assessment_comment decides.
AssessmentStep(scan, n) ==
    IF scan.found THEN "success"
    ELSE IF n < max_comment_retries THEN "retry"
    ELSE "fail"

\* Lines 547-619: one iteration of the loop: fetch the comments, scan them,
\* decide.
ProbeComments ==
    /\ pc = "comments"
    /\ \E fetched \in CommentLists :
          LET scan == ScanComments(fetched, None)
              act == AssessmentStep(scan, attempt)
          IN  /\ comments' = fetched
              /\ commentFetches' = commentFetches + 1
              /\ probes' = Append(probes, scan.token)
              /\ CASE act = "success" ->
                        /\ Return("return")
                        /\ UNCHANGED <<waits, attempt, failure>>
                   [] act = "retry" ->
                        /\ waits' = Append(waits,
                              BackoffWait(comment_base_wait_seconds, attempt))
                        /\ attempt' = attempt + 1
                        /\ UNCHANGED <<pc, failure, passed>>
                   [] act = "fail" ->
                        /\ Fail("assessment", AssessmentFailure(fetched))
                        /\ UNCHANGED <<waits, attempt, passed>>
    /\ UNCHANGED <<issue_numbers, vi, started, run, validated,
                   settles, labelFetches, labelsFailed, actual_labels>>
    /\ UNCHANGED createVars
    /\ UNCHANGED unitVars

\* Mutant of ExitStatus: the process always reports success.
ExitStatusAlwaysZero == IF failure # None THEN 0 ELSE 0

\* Lines 871-874: unittest.main exits with 1 when test_workflow raised,
\* with 0 when it returned.
ExitStatus == IF failure # None THEN 1 ELSE 0

Next ==
    \/ CreateTestIssue
    \/ EnterValidation
    \/ NextIssue
    \/ ProbeRuns
    \/ ValidateIssueLabels
    \/ AssessmentSettle
    \/ ProbeComments

Spec == Init /\ [][Next]_vars

\* The script is one thread of control and every call it makes returns: a
\* step that can be taken is taken.
SpecLive == Spec /\ WF_vars(Next)

\* ------------------------------------------------- the helpers on their own
\* A second specification applies one helper to one input: the input is
\* drawn in the initial state, the action stores the result.
UnitTargets == {<<"1">>, <<"1", "1">>, <<"2">>}

UnitRunLists ==
    SeqsUpTo({Run(t, "completed", "success", 7, "t1", "t2") : t \in TitlePool},
             MaxUnitRuns)

UnitLabelPool ==
    LabelPool \cup
        { <<"ai:", "bug-triage:", "-", "coreapi">>,
          <<"ai:", "bug-triage:", "coreapi">>,
          <<"ai:", "triaged">>,
          <<"area/coreapi">> }

\* Expected label sets: at most two labels, as in the scenarios.
UnitExpectedSets == {S \in SUBSET UnitLabelPool : Cardinality(S) <= 2}

\* What run can hold from the attempt before.
UnitPrevious ==
    { None,
      Some(Run(<<"#", "1">>, "in_progress", "", 7, "t1", "t2")),
      Some(Run(<<"#", "1", "1">>, "in_progress", "", 8, "t1", "t2")) }

UnitInit ==
    /\ ProgInit
    /\ \/ /\ fn = "FindRun"
          /\ args \in [runs : UnitRunLists, issue_number : UnitTargets]
       \/ /\ fn = "SelectRun"
          /\ args \in [previous : UnitPrevious, runs : UnitRunLists,
                       issue_number : UnitTargets]
       \/ /\ fn = "LabelFailures"
          /\ args \in [expected : UnitExpectedSets,
                       actual : SUBSET UnitLabelPool]
    /\ res = [done |-> FALSE]

ApplyFindRun ==
    /\ fn = "FindRun"
    /\ ~res.done
    /\ res' = [done |-> TRUE, value |-> FindRun(args.runs, args.issue_number)]
    /\ UNCHANGED <<fn, args>>
    /\ UNCHANGED progVars

ApplyLabelFailures ==
    /\ fn = "LabelFailures"
    /\ ~res.done
    /\ res' = [done |-> TRUE,
               value |-> LabelFailures(args.expected, args.actual)]
    /\ UNCHANGED <<fn, args>>
    /\ UNCHANGED progVars

ApplySelectRun ==
    /\ fn = "SelectRun"
    /\ ~res.done
    /\ res' = [done |-> TRUE,
               value |-> SelectRun(args.previous, args.runs,
                                   args.issue_number)]
    /\ UNCHANGED <<fn, args>>
    /\ UNCHANGED progVars

UnitNext == ApplyFindRun \/ ApplySelectRun \/ ApplyLabelFailures

SpecUnit == UnitInit /\ [][UnitNext]_vars

\* ================================================================== claims
\* The completion loop is the active one or the last one that ran: probes
\* holds the runs it selected.
CompletionProbes ==
    \/ pc \in {"runs", "labels", "settle"}
    \/ pc = "failed" /\ failure[1].stage \in {"completion", "labels"}

CompletionFailed == pc = "failed" /\ failure[1].stage = "completion"

FieldsPresent(r) == r.databaseId # 0 /\ r.createdAt # "" /\ r.updatedAt # ""

\* A probe without a terminal result: no run, or a complete snapshot that
\* is still in progress.
RetryNeeded(p) ==
    p = None \/ (FieldsPresent(p[1]) /\ p[1].status = "in_progress")

Terminated == pc \in {"done", "failed"}

\* C1: when test_workflow has ended, every created issue with an
\* extractable number has had its completion validation started, whatever
\* happened to the issues before it.
C1_EveryIssueValidated ==
    Terminated => started = 1..Len(issue_numbers)

\* C2: while no probe of the completion loop has a terminal result, the
\* sleeps made are 10, 20, 40 in that order, one after each of the first
\* three probes and none before the first; the fourth probe is followed by
\* no sleep and by the exhaustion failure.
C2_BackoffSchedule ==
    ((pc = "runs" \/ CompletionFailed)
        /\ \A i \in 1..Len(probes) : RetryNeeded(probes[i]))
    => /\ Len(probes) <= 4
       /\ waits = SubSeq(<<10, 20, 40>>, 1, Len(waits))
       /\ IF Len(probes) < 4
          THEN pc = "runs" /\ Len(waits) = Len(probes)
          ELSE /\ CompletionFailed
               /\ waits = <<10, 20, 40>>
               /\ failure[1].reason \in
                     {"No workflow run found", "did not complete after retries"}

C2_Witness ==
    /\ CompletionFailed
    /\ Len(probes) = 4
    /\ \A i \in 1..4 : RetryNeeded(probes[i])
    /\ probes[1] = None /\ probes[2] # None
    /\ waits = <<10, 20, 40>>

\* The numbers a title carries as "#", optional spaces, and a whole run of
\* digits.
HashNumbers(title) ==
    {SubSeq(title, j, k) : <<j, k>> \in
        {jk \in (1..Len(title)) \X (1..Len(title)) :
            /\ jk[1] <= jk[2]
            /\ \A m \in jk[1]..jk[2] : title[m] \in Digits
            /\ (jk[2] = Len(title) \/ title[jk[2] + 1] \notin Digits)
            /\ \E i \in 1..(jk[1] - 1) :
                  /\ title[i] = "#"
                  /\ \A m \in (i + 1)..(jk[1] - 1) : title[m] \in Spaces}}

\* C3: the run selected for an issue is a run of the list whose embedded
\* "#" number equals the issue number as a whole, never one that merely
\* starts with it; and no run is selected exactly when no run of the list
\* carries the issue number.
C3_ExactMatchOnly ==
    (fn = "FindRun" /\ res.done)
    => LET selected == res.value
           Carries(r) == IssueNumberInTitle(r.displayTitle) = args.issue_number
       IN  /\ selected # None =>
                /\ \E i \in 1..Len(args.runs) : args.runs[i] = selected[1]
                /\ Carries(selected[1])
                /\ args.issue_number \in HashNumbers(selected[1].displayTitle)
           /\ selected = None <=>
                \A i \in 1..Len(args.runs) : ~Carries(args.runs[i])

C3_Witness ==
    /\ fn = "FindRun" /\ res.done
    /\ args.issue_number = <<"1">>
    /\ Len(args.runs) = 2
    /\ args.runs[1].displayTitle = <<"#", "1", "1">>
    /\ args.runs[2].displayTitle = <<"#", "1">>
    /\ res.value = Some(args.runs[2])

\* C4: for a selected run with all required fields: completed and success
\* is validated; completed and failure fails with "did not complete
\* successfully"; in progress at all four probes fails with the exhaustion
\* reason and is not validated.
C4_CompletionOutcome ==
    /\ (run # None /\ FieldsPresent(run[1]) /\ run[1].status = "completed"
            /\ run[1].conclusion = "success")
       => (validated /\ ~CompletionFailed)
    /\ (run # None /\ FieldsPresent(run[1]) /\ run[1].status = "completed"
            /\ run[1].conclusion = "failure")
       => (/\ CompletionFailed
           /\ failure[1].reason = "did not complete successfully"
           /\ ~validated)
    /\ ((pc = "runs" \/ CompletionFailed)
            /\ Len(probes) = 4
            /\ \A i \in 1..4 :
                  /\ probes[i] # None
                  /\ FieldsPresent(probes[i][1])
                  /\ probes[i][1].status = "in_progress")
       => (/\ CompletionFailed
           /\ failure[1].reason = "did not complete after retries"
           /\ ~validated)

C4_Witness ==
    /\ CompletionFailed
    /\ Len(probes) = 4
    /\ \A i \in 1..4 :
          /\ probes[i] # None
          /\ FieldsPresent(probes[i][1])
          /\ probes[i][1].status = "in_progress"
    /\ failure[1].reason = "did not complete after retries"

\* C5: a probe that selects no run at one of the first three attempts is
\* followed by a sleep and another probe, not by a failure; the failure
\* "No workflow run found" is raised exactly when the fourth probe selects
\* no run.
C5_NoRunRetried ==
    (pc = "runs" \/ CompletionFailed)
    => /\ \A i \in 1..Len(probes) :
             (probes[i] = None /\ i <= 3)
             => /\ Len(waits) >= i
                /\ (Len(probes) > i \/ pc = "runs")
       /\ (CompletionFailed /\ failure[1].reason = "No workflow run found")
             <=> (Len(probes) = 4 /\ probes[4] = None)

C5_Witness ==
    /\ CompletionFailed
    /\ failure[1].reason = "No workflow run found"
    /\ Len(probes) = 4
    /\ probes[1] = None /\ probes[3] # None /\ probes[4] = None

\* C6: a selected run that lacks its run id or a timestamp ends the
\* completion validation at that attempt with a failure, whatever its
\* status: no sleep and no probe follows, and the issue is not validated.
C6_MissingFieldFailsAtOnce ==
    CompletionProbes
    => \A i \in 1..Len(probes) :
          (probes[i] # None /\ ~FieldsPresent(probes[i][1]))
          => /\ i = Len(probes)
             /\ CompletionFailed
             /\ failure[1].reason \in
                   {"No run_id found", "No createdAt timestamp",
                    "No updatedAt timestamp"}
             /\ Len(waits) = i - 1
             /\ ~validated

C6_Witness ==
    /\ CompletionFailed
    /\ Len(probes) = 1
    /\ probes[1] # None
    /\ probes[1][1].status = "in_progress"
    /\ probes[1][1].databaseId = 0
    /\ waits = <<>>
    /\ failure[1].reason = "No run_id found"

\* C7: the labels and the comments of an issue are fetched only after its
\* completion validation has validated a completed, successful run.
C7_FetchesOnlyAfterValidated ==
    (labelFetches > 0 \/ commentFetches > 0
        \/ pc \in {"labels", "settle", "comments"})
    => /\ validated
       /\ run # None
       /\ run[1].status = "completed"
       /\ run[1].conclusion = "success"

C7_Witness ==
    /\ labelFetches > 0
    /\ commentFetches > 0
    /\ validated

\* C8: when the label validation of a validated issue has failed and the
\* scenario expects an assessment, the comments of the issue have been
\* fetched by the time test_workflow ends.
C8_AssessmentAfterLabelFailure ==
    (Terminated /\ validated /\ labelsFailed /\ WantsAssessment(Metadata))
    => commentFetches > 0

\* A label of the form ai:bug-triage:<severity>-<component>, and its
\* component: the text after the "-" that ends the severity.
IsAssessmentLabel(l) ==
    /\ Len(l) >= 3 /\ l[1] = "ai:" /\ l[2] = "bug-triage:"
    /\ \E k \in 3..Len(l) : l[k] = "-"

ComponentOf(l) ==
    SubSeq(l, Min({k \in 3..Len(l) : l[k] = "-"}) + 1, Len(l))

\* C9: with the kind/bug check passed, the check of an expected label
\* ai:bug-triage:<severity>-<component> passes if and only if some actual
\* label is ai:bug-triage:<any severity>-<the same component>.
C9_FuzzyComponentMatch ==
    (fn = "LabelFailures" /\ res.done
        /\ ~(KindBug \in args.expected /\ KindBug \notin args.actual))
    => \A e \in args.expected :
          IsAssessmentLabel(e)
          => ((~\E f \in res.value : f.what = ComponentOf(e) \/ f.what = e)
              <=> \E a \in args.actual :
                     IsAssessmentLabel(a) /\ ComponentOf(a) = ComponentOf(e))

C9_Witness ==
    /\ fn = "LabelFailures" /\ res.done
    /\ args.expected = {KindBug, AiLabel("critical", "coreapi")}
    /\ args.actual = {KindBug, AiLabel("high", "coreapi")}
    /\ res.value = {}

\* The body has the marker "AI Assessment:" followed, after optional
\* whitespace, by a token of the vocabulary.
HasValidAssessment(body) ==
    \E i \in 1..Len(body) :
        /\ i + 2 <= Len(body)
        /\ body[i] = "AI" /\ body[i + 1] = " " /\ body[i + 2] = "Assessment:"
        /\ LET j == SkipWhitespace(body, i + 3)
           IN  MatchesVocabulary(
                   SubSeq(body, j, SkipNonWhitespace(body, j) - 1))

AssessmentSucceeded == pc = "next" /\ commentFetches > 0 /\ vi \in passed

AssessmentFailed == pc = "failed" /\ failure[1].stage = "assessment"

\* C10: the assessment validation succeeds only if a comment of the
\* successful probe has the marker "AI Assessment:" followed by a token of
\* the vocabulary; and when every probe found only tokens outside the
\* vocabulary, it fails and the failure reports the token found.
C10_SuccessOnlyOnValidToken ==
    /\ AssessmentSucceeded
       => \E i \in 1..Len(comments) : HasValidAssessment(comments[i])
    /\ ((pc = "comments" \/ AssessmentFailed)
            /\ Len(probes) = 4 /\ \A i \in 1..4 : probes[i] # None)
       => /\ AssessmentFailed
          /\ failure[1].reason.kind = "format is invalid"
          /\ \E k \in 1..Len(failure[1].reason.found) :
                failure[1].reason.found[k] = probes[4][1]

\* C11: a probe of the assessment loop that finds the marker with a token
\* outside the vocabulary, and no valid token, is the last probe: the
\* validation fails at that attempt, with no sleep and no comment fetch
\* after it.
C11_InvalidTokenFailsAtOnce ==
    (pc = "comments" \/ AssessmentFailed)
    => \A i \in 1..Len(probes) :
          probes[i] # None
          => /\ i = Len(probes)
             /\ AssessmentFailed
             /\ Len(waits) = i - 1
             /\ commentFetches = i

\* The marker "AI Assessment:" in any letter case stands at index i.
IsMarkerAt(body, i) ==
    /\ i + 2 <= Len(body)
    /\ LowerTok(body[i]) = "ai" /\ body[i + 1] = " "
    /\ LowerTok(body[i + 2]) = "assessment:"

\* The text after the marker at index i and optional whitespace, up to the
\* next whitespace.
TokenAfterMarkerAt(body, i) ==
    LET j == SkipWhitespace(body, i + 3)
    IN  SubSeq(body, j, SkipNonWhitespace(body, j) - 1)

\* The comment has the marker "AI Assessment:" and a token after a marker.
CarriesMarkerToken(body) ==
    /\ HasLiteralMarker(body)
    /\ \E i \in 1..Len(body) :
          IsMarkerAt(body, i) /\ TokenAfterMarkerAt(body, i) # <<>>

HasLocator(output) ==
    \E i \in 1..Len(output) :
        /\ output[i] = "https://github.com/"
        /\ i < Len(output)
        /\ output[i + 1] \notin Whitespace

\* The create call succeeded with a locator in one of its output channels.
CreateSucceeded(r) ==
    r.exit_code = 0 /\ (HasLocator(r.stdout) \/ HasLocator(r.stderr))

LoggedUrls == [i \in 1..Len(createLog) |-> createLog[i].url]

\* C13: every fixture up to the current one has had its one create call,
\* whatever the calls before it answered, and validation starts only after
\* the last fixture; the create call of a fixture records an issue iff it
\* exited with 0 and one of its output channels holds a locator; and the
\* created issues are exactly the issues so recorded, in fixture order.
C13_CreationFailureScoped ==
    /\ Len(createLog) = fi - 1
    /\ pc # "create" => Len(createLog) = NumFixtures
    /\ \A i \in 1..Len(createLog) : createLog[i].calls = 1
    /\ answer # None
          => (createLog[Len(createLog)].url # None
                <=> CreateSucceeded(answer[1]))
    /\ created_issues = SelectSeq(LoggedUrls, LAMBDA u : u # None)

C13_Witness ==
    /\ Len(createLog) = 2
    /\ createLog[1].url = None
    /\ answer # None
    /\ answer[1].exit_code = 0 /\ answer[1].stdout = <<>>
    /\ created_issues = <<IssueUrl(<<"1">>)>>

\* The created issues whose URL ends in "/issues/" and a number.
NumberedIssues ==
    SelectSeq(created_issues,
              LAMBDA u : Len(u) >= 4 /\ u[3] = "/issues/" /\ u[4] \in Digits)

\* C14: no validation probe is made before every fixture has had its
\* create call; the issues are validated in the order of their creation;
\* an issue is probed only when every issue before it has returned from
\* all its stages; and for one issue the runs are probed first, the labels
\* are read only once the run is validated, and the comments are fetched
\* only after the labels have been read and accepted (when labels are
\* expected).
C14_StageOrder ==
    /\ (vi > 0 \/ Len(probes) > 0 \/ labelFetches > 0 \/ commentFetches > 0)
          => (pc # "create" /\ Len(createLog) = NumFixtures)
    /\ pc # "create"
          => issue_numbers =
                [k \in 1..Len(NumberedIssues) |->
                    SubSeq(NumberedIssues[k], 4, Len(NumberedIssues[k]))]
    /\ started = 1..vi
    /\ passed \subseteq 1..vi
    /\ {k \in 1..vi : k < vi} \subseteq passed
    /\ pc \in {"next", "done"} => passed = 1..vi
    /\ pc = "runs"
          => (labelFetches = 0 /\ commentFetches = 0 /\ settles = <<>>)
    /\ pc = "labels"
          => (validated /\ labelFetches = 0 /\ commentFetches = 0)
    /\ labelFetches > 0 => validated
    /\ (pc \in {"settle", "comments"} \/ commentFetches > 0)
          => /\ validated
             /\ Metadata.expected_labels # {}
                   => (labelFetches = 1 /\ ~labelsFailed)

C14_Witness ==
    /\ vi = 2
    /\ passed = {1}
    /\ pc = "comments"
    /\ labelFetches = 1
    /\ commentFetches = 2

\* C15: a run in which the create call of some fixture created no issue
\* does not end as a passed run.
C15_CreateFailureMarkedFailed ==
    (pc = "done" /\ \E i \in 1..Len(createLog) : createLog[i].url = None)
    => ExitStatus # 0

\* C16: when the run has ended, the exit status is 1 iff the validation of
\* some issue was started and did not return, and then the failure is the
\* one raised for that issue by the completion, label or assessment
\* validation; the status is 0 when every started validation returned.
C16_ExitStatus ==
    Terminated
    => /\ ExitStatus = 1 <=> started \ passed # {}
       /\ ExitStatus = 0 <=> (pc = "done" /\ passed = 1..Len(issue_numbers))
       /\ ExitStatus = 1
             => /\ started \ passed = {vi}
                /\ failure[1].issue = issue_numbers[vi]
                /\ failure[1].stage \in {"completion", "labels", "assessment"}

C16_Witness ==
    /\ pc = "failed"
    /\ passed = {1}
    /\ vi = 2
    /\ failure[1].stage = "labels"
    /\ ExitStatus = 1

\* C17: an empty answer is not fatal: a label read that returns no label
\* does not make the label validation fail, and a probe that finds no run,
\* or a fetch that returns no comment, with retries left is followed by
\* another attempt.
C17_EmptyResultNotFatal ==
    /\ actual_labels = Some({}) => ~labelsFailed
    /\ ((pc = "runs" \/ CompletionFailed)
            /\ Len(probes) \in 1..3 /\ run = None)
          => pc = "runs"
    /\ ((pc = "comments" \/ AssessmentFailed)
            /\ commentFetches \in 1..3 /\ comments = <<>>)
          => pc = "comments"

\* C18: a selected run with all its fields whose status is not
\* "in_progress" ends the completion loop at the attempt where it is seen,
\* with no sleep after it; unless the status is "completed" the validation
\* fails with "did not complete", whatever the conclusion.
C18_OtherStatusTerminal ==
    CompletionProbes
    => \A i \in 1..Len(probes) :
          (/\ probes[i] # None
           /\ FieldsPresent(probes[i][1])
           /\ probes[i][1].status # "in_progress")
          => /\ i = Len(probes)
             /\ Len(waits) = i - 1
             /\ pc # "runs"
             /\ probes[i][1].status # "completed"
                   => /\ CompletionFailed
                      /\ failure[1].reason = "did not complete"
                      /\ ~validated

C18_Witness ==
    /\ CompletionFailed
    /\ probes = <<Some(Run(TitleFor1, "queued", "", 7, "t1", "t2"))>>
    /\ attempt = 0
    /\ waits = <<>>
    /\ failure[1].reason = "did not complete"

\* The label set lacks an expected label: kind/bug, or the component of
\* an expected assessment label.
LacksExpected(expected, actual) ==
    \/ KindBug \in expected /\ KindBug \notin actual
    \/ \E e \in expected :
          /\ IsAssessmentLabel(e)
          /\ ~\E a \in actual :
                 IsAssessmentLabel(a) /\ ComponentOf(a) = ComponentOf(e)

\* C19: the labels of an issue are read at most once, after exactly one
\* sleep of 2 seconds; when the set read lacks an expected label the
\* validation has failed on that read, with no second read.
C19_LabelsReadOnce ==
    /\ labelFetches <= 1
    /\ pc = "labels" => (labelFetches = 0 /\ settles = <<>>)
    /\ labelFetches = 1
          => /\ Len(settles) >= 1 /\ settles[1] = 2
             /\ Len(settles) > 1 => pc \in {"comments", "next", "failed"}
    /\ actual_labels # None
          => /\ labelFetches = 1
             /\ settles = <<2>>
             /\ LacksExpected(Metadata.expected_labels, actual_labels[1])
                   => (labelsFailed /\ pc = "failed"
                       /\ failure[1].stage = "labels")
    /\ labelsFailed => (labelFetches = 1 /\ actual_labels # None)

C19_Witness ==
    /\ labelsFailed
    /\ labelFetches = 1
    /\ settles = <<2>>
    /\ Metadata.expected_labels = {KindBug, AiLabel("critical", "coreapi")}
    /\ actual_labels = Some({KindBug, AiLabel("high", "networking")})

\* The assessment loop is the active one or the last one that ran.
InAssessment == pc = "comments" \/ AssessmentFailed \/ AssessmentSucceeded

\* The schedule of the assessment loop: one sleep of 2 seconds after those
\* of the label validation and before any comment fetch; at most four
\* fetches; the sleeps 3, 6, 12 in this order, one after each fetch that is
\* retried, each shorter than the completion loop's sleep of the same
\* index; a failure only at the fourth fetch.
AssessmentSchedule ==
    /\ commentFetches > 0 => InAssessment
    /\ InAssessment
          => /\ Len(settles) = labelFetches + 1
             /\ settles[Len(settles)] = 2
             /\ commentFetches <= 4
             /\ waits = SubSeq(<<3, 6, 12>>, 1, Len(waits))
             /\ \A i \in 1..Len(waits) : waits[i] < <<10, 20, 40>>[i]
             /\ pc = "comments"
                   => (attempt = commentFetches /\ Len(waits) = commentFetches)
             /\ pc # "comments" => Len(waits) = commentFetches - 1
             /\ AssessmentFailed
                   => (commentFetches = 4 /\ waits = <<3, 6, 12>>)

\* C20: the assessment loop follows its schedule, and it starts with its
\* attempt counter at 0 and no fetch made, whatever the number of attempts
\* the completion loop used.
C20_AssessmentSchedule ==
    /\ []AssessmentSchedule
    /\ [][pc = "settle"
            => (/\ pc' = "comments"
                /\ attempt' = 0
                /\ waits' = <<>>
                /\ commentFetches' = 0
                /\ settles' = Append(settles, 2))]_vars

C20_Witness ==
    /\ AssessmentFailed
    /\ commentFetches = 4
    /\ waits = <<3, 6, 12>>
    /\ settles = <<2, 2>>
    /\ run # None

\* C21: with the kind/bug check passed, an expected label that starts with
\* "ai:" and is not of the form ai:bug-triage:<severity>-<component> passes
\* if and only if the identical label is among the actual labels.
C21_LiteralFallback ==
    (fn = "LabelFailures" /\ res.done
        /\ ~(KindBug \in args.expected /\ KindBug \notin args.actual))
    => \A e \in args.expected :
          (Len(e) >= 1 /\ e[1] = "ai:" /\ ~IsAssessmentLabel(e))
          => ((~\E f \in res.value : f.what = e) <=> e \in args.actual)

C21_Witness ==
    /\ fn = "LabelFailures" /\ res.done
    /\ args.expected = {<<"ai:", "bug-triage:", "coreapi">>}
    /\ args.actual = {AiLabel("high", "coreapi")}
    /\ res.value =
          {[kind |-> "ai label not found",
            what |-> <<"ai:", "bug-triage:", "coreapi">>,
            actual |-> args.actual]}

\* C28: every expected label that does not start with "ai:" and is not
\* among the actual labels makes the label validation fail with a failure
\* that names it.
C28_CarryOverPreserved ==
    (fn = "LabelFailures" /\ res.done)
    => \A e \in args.expected :
          (~(Len(e) >= 1 /\ e[1] = "ai:") /\ e \notin args.actual)
          => \E f \in res.value : f.what = e

\* The number of times x occurs in the sequence.
Occurrences(seq, x) == Cardinality({k \in 1..Len(seq) : seq[k] = x})

\* C22: every fixture up to the current one has had exactly one create
\* request; a call that returned an issue slept WORKFLOW_WAIT_SECONDS
\* exactly once, as its last step and after the parameter check when there
\* was one; a call that returned no issue made no sleep; and the issue is
\* returned whatever the parameter check answered.
C22_CreateOnceSettleOnce ==
    /\ Len(createLog) = fi - 1
    /\ \A i \in 1..Len(createLog) :
          LET e == createLog[i]
          IN  /\ e.calls = 1
              /\ Occurrences(e.steps, "create") = 1
              /\ e.steps[1] = "create"
              /\ e.url = None => (e.sleeps = <<>> /\ e.steps = <<"create">>)
              /\ e.url # None
                    => /\ e.sleeps = <<10>>
                       /\ Occurrences(e.steps, "sleep") = 1
                       /\ e.steps[Len(e.steps)] = "sleep"
                       /\ Occurrences(e.steps, "verify") = e.verifies
                       /\ e.verifies <= 1
    /\ verified # None
          => /\ CreateSucceeded(answer[1])
             /\ createLog[Len(createLog)].url # None
             /\ createLog[Len(createLog)].url
                   = created_issues[Len(created_issues)]
             /\ createLog[Len(createLog)].steps
                   = <<"create", "verify", "sleep">>

C22_Witness ==
    /\ Len(createLog) = 2
    /\ createLog[1].steps = <<"create">>
    /\ createLog[1].sleeps = <<>>
    /\ verified = Some(FALSE)
    /\ createLog[2].steps = <<"create", "verify", "sleep">>
    /\ createLog[2].sleeps = <<10>>
    /\ Len(created_issues) = 1

\* The fetches made for the current issue stay within their limits: at
\* most four run-list fetches, counted by one attempt counter whatever the
\* reason of each retry, at most one label fetch and at most four comment
\* fetches.
FetchLimits ==
    /\ CompletionProbes => Len(probes) <= 4
    /\ pc = "runs" => (attempt = Len(probes) /\ attempt <= 3)
    /\ labelFetches <= 1
    /\ commentFetches <= 4
    /\ pc = "comments" => (attempt = commentFetches /\ attempt <= 3)

\* C23: the fetches of every issue stay within their limits, and the run
\* ends: test_workflow returns or an assertion leaves it.
C23_Terminates == []FetchLimits /\ <>Terminated

C23_Witness ==
    /\ CompletionFailed
    /\ vi = 2
    /\ Len(probes) = 4
    /\ probes[1] = None /\ probes[2] # None
    /\ probes[3] = None /\ probes[4] # None
    /\ failure[1].reason = "did not complete after retries"

\* The indices of the runs of the list whose title carries "#" and exactly
\* this number.
MatchingRuns(runs, issue_number) ==
    {i \in 1..Len(runs) : issue_number \in HashNumbers(runs[i].displayTitle)
                            /\ IssueNumberInTitle(runs[i].displayTitle)
                                  = issue_number}

\* C24: whatever run the attempt before selected, the run an attempt
\* selects is the first run, in the order of the list it fetched, whose
\* title carries the issue number; when the list has none, no run is
\* selected and the last attempt fails with "No workflow run found".
C24_NoRunKeptBetweenAttempts ==
    (fn = "SelectRun" /\ res.done)
    => LET hits == MatchingRuns(args.runs, args.issue_number)
       IN  /\ hits # {} => res.value = Some(args.runs[Min(hits)])
           /\ hits = {}
                 => /\ res.value = None
                    /\ CompletionStep(res.value, 3) =
                          [act |-> "fail", reason |-> "No workflow run found"]

C24_Witness ==
    /\ fn = "SelectRun" /\ res.done
    /\ args.issue_number = <<"1">>
    /\ args.previous # None
    /\ args.previous[1].displayTitle = <<"#", "1">>
    /\ Len(args.runs) = 2
    /\ args.runs[1].displayTitle = <<"#", " ", "1">>
    /\ args.runs[2].displayTitle = <<"#", "1">>
    /\ res.value = Some(args.runs[1])

\* C25: once a probe of the assessment loop has fetched a comment in which
\* the marker "AI Assessment:" is followed by a token of the vocabulary,
\* the validation has succeeded at that probe, whatever the other comments
\* and the earlier probes held, with one sleep for each earlier probe and
\* none after it.
C25_ValidTokenSucceedsAtOnce ==
    (InAssessment /\ commentFetches > 0
        /\ \E i \in 1..Len(comments) : HasValidAssessment(comments[i]))
    => /\ AssessmentSucceeded
       /\ Len(probes) = commentFetches
       /\ Len(waits) = commentFetches - 1

\* The locators of created_issues that have no issue number.
UnnumberedIssues ==
    SelectSeq(created_issues,
              LAMBDA u : ~(Len(u) >= 4 /\ u[3] = "/issues/" /\ u[4] \in Digits))

\* C26: a locator with no issue number is counted among the created
\* issues, and the validation knows nothing of it: the issues validated are
\* the numbered locators in order, the metadata has keys of numbered
\* locators only, every fetch, pass and failure belongs to one of these,
\* and the run ends with success when each of these passed.
C26_UnnumberedNeverValidated ==
    /\ Len(created_issues) =
           Cardinality({k \in 1..Len(createLog) : createLog[k].url # None})
    /\ Len(created_issues) = Len(NumberedIssues) + Len(UnnumberedIssues)
    /\ DOMAIN scenario_metadata
           \subseteq {SubSeq(NumberedIssues[i], 4, Len(NumberedIssues[i])) :
                         i \in 1..Len(NumberedIssues)}
    /\ pc # "create"
          => /\ Len(issue_numbers) = Len(NumberedIssues)
             /\ \A i \in 1..Len(issue_numbers) :
                    issue_numbers[i] =
                       SubSeq(NumberedIssues[i], 4, Len(NumberedIssues[i]))
             /\ started \subseteq 1..Len(issue_numbers)
             /\ passed \subseteq started
             /\ (Len(probes) > 0 \/ labelFetches > 0 \/ commentFetches > 0)
                    => vi \in started
             /\ failure # None
                    => \E i \in started : failure[1].issue = issue_numbers[i]
             /\ pc = "done"
                    => (failure = None /\ passed = 1..Len(issue_numbers))

C26_Witness ==
    /\ pc = "done"
    /\ Len(created_issues) = 2
    /\ Len(UnnumberedIssues) = 1
    /\ issue_numbers = <<<<"1">>>>
    /\ passed = {1}
    /\ ExitStatus = 0

\* The fixture the issue under validation was created from.
CurrentFixture ==
    CHOOSE f \in FixturePool :
        f.scenario = scenario_metadata[issue_numbers[vi]].scenario

\* The labels the fixture expects: its expected_labels, its initial labels
\* when it has none.
ExpectedLabelsOf(f) ==
    IF f.expected_labels = None THEN f.labels ELSE f.expected_labels[1]

\* The fixture is flagged positive or has an expected assessment.
ExpectsAssessment(f) == f.is_positive \/ f.expected_assessment # ""

\* The label validation of the issue has been entered or has run.
LabelStageReached == pc = "labels" \/ labelFetches > 0

\* The assessment validation of the issue has been entered or has run.
AssessmentStageReached ==
    pc \in {"settle", "comments"} \/ Len(settles) > labelFetches

=============================================================================
